---- MODULE Spec2Model ----
(***************************************************************************)
(* ATM web simulator (src/app.py): the per-client Flask session, the       *)
(* transaction ledger file and the JSON request handlers.                  *)
(*                                                                         *)
(* Strings that the code inspects character by character (PINs, amounts)   *)
(* are sequences of one-character strings.  Money held in the session is   *)
(* counted in hundredths of a pound (123.45 is 12345); a withdrawal amount *)
(* is the whole number of pounds validate_withdrawal returns.              *)
(* The development routes /debug and /reset-data answer 403 unless the     *)
(* server is started in debug mode and are not part of this model.         *)
(* resp is an observer: the last request and the response it was given.    *)
(* Spec handles one request at a time; SpecOSError adds a ledger write     *)
(* that fails; SpecConcurrent lets the withdrawals of two clients overlap  *)
(* between reading and rewriting the ledger file (inflight).               *)
(***************************************************************************)
EXTENDS Integers, Sequences, FiniteSets, TLC

\* ---------------------------------------------------------------- bounds
MaxLedger == 2      \* successful withdrawals recorded in one run
MaxFailed == 2      \* the failed-login count saturates here

\* Requests are handled one at a time and sessions share only the ledger;
\* the requests of one client are explored.
Clients == {"c1"}

\* clock readings (seconds)
Times == {0, 1}

\* ------------------------------------------------------------- constants
DEFAULT_PIN == <<"1", "2", "3", "4">>
ADMIN_PASSWORD == <<"4", "3", "2", "1">>
STARTING_BALANCE == 12345

DigitChars == <<"0", "1", "2", "3", "4", "5", "6", "7", "8", "9">>

\* request inputs
PinInputs ==
    { DEFAULT_PIN, ADMIN_PASSWORD, <<"5", "6", "7", "8">>,
      <<"5", "6", "7">>, <<"5", "6", "a", "8">> }

AmountInputs ==
    { <<"1", "0">>, <<"1", "2", "0">>, <<"1", "3", "0">>,
      <<"1", "5">>, <<"0">>, <<"-", "5", ".", "5">>, <<"1", "0", ".", "5">>,
      <<"a", "b", "c">>, <<"i", "n", "f">> }

\* ------------------------------------------------------- session as a dict
EmptyDict == <<>>
Has(d, k) == k \in DOMAIN d
Get(d, k, default) == IF k \in DOMAIN d THEN d[k] ELSE default
Put(d, k, v) == [x \in (DOMAIN d) \cup {k} |-> IF x = k THEN v ELSE d[x]]
Pop(d, k) == [x \in (DOMAIN d) \ {k} |-> d[x]]

VARIABLES
    session,    \* client -> that client's session dict
    ledger,     \* contents of data/transactions.json, a sequence of records
    resp,       \* the last request and the response it got
    inflight    \* client -> its api_withdraw that is inside add_transaction

vars == <<session, ledger, resp, inflight>>

\* ------------------------------------------------------------- utilities
load_transactions == ledger

IsDigit(ch) == \E i \in 1..Len(DigitChars) : DigitChars[i] = ch
DigitVal(ch) == (CHOOSE i \in 1..Len(DigitChars) : DigitChars[i] = ch) - 1
AllDigits(s) == \A i \in 1..Len(s) : IsDigit(s[i])

RECURSIVE DigitsToNat(_)
DigitsToNat(s) ==
    IF s = <<>> THEN 0
    ELSE DigitsToNat(SubSeq(s, 1, Len(s) - 1)) * 10 + DigitVal(s[Len(s)])

\* float(amount_str) for decimal literals with at most two fractional
\* digits, "inf" and "nan"; the value of a number is in hundredths.
ParseFloat(s) ==
    LET neg == Len(s) > 0 /\ s[1] = "-"
        signed == Len(s) > 0 /\ s[1] \in {"-", "+"}
        body == IF signed THEN SubSeq(s, 2, Len(s)) ELSE s
        dots == {i \in 1..Len(body) : body[i] = "."}
        dot == IF dots = {} THEN Len(body) + 1 ELSE CHOOSE i \in dots : TRUE
        ip == SubSeq(body, 1, dot - 1)
        fp == SubSeq(body, dot + 1, Len(body))
        fv == IF Len(fp) = 0 THEN 0
              ELSE IF Len(fp) = 1 THEN DigitsToNat(fp) * 10
              ELSE DigitsToNat(SubSeq(fp, 1, 2))
        mag == DigitsToNat(ip) * 100 + fv
    IN  IF body = <<"i", "n", "f">>
            THEN [kind |-> "inf", neg |-> neg, val |-> 0]
        ELSE IF body = <<"n", "a", "n">>
            THEN [kind |-> "nan", neg |-> neg, val |-> 0]
        ELSE IF /\ Cardinality(dots) <= 1
                /\ AllDigits(ip) /\ AllDigits(fp)
                /\ Len(ip) + Len(fp) > 0
            THEN [kind |-> "num", neg |-> neg, val |-> IF neg THEN 0 - mag ELSE mag]
        ELSE [kind |-> "ValueError", neg |-> neg, val |-> 0]

\* mutant: the balance is not consulted
InsufficientFunds_Unchecked(amount, balance) == FALSE

\* amount > balance, an amount in pounds against a balance in hundredths
InsufficientFunds(amount, balance) == amount * 100 > balance

Invalid(text) == [outcome |-> "invalid", amount |-> 0, message |-> <<text>>]

validate_withdrawal(amount_str, balance) ==
    LET f == ParseFloat(amount_str) IN
    IF f.kind = "ValueError" THEN Invalid("Please enter a valid number.")
    ELSE IF (f.kind = "num" /\ f.val <= 0) \/ (f.kind = "inf" /\ f.neg)
        THEN Invalid("Amount must be greater than 0.")
    ELSE IF f.kind = "inf"      \* int(inf): OverflowError, not caught
        THEN [outcome |-> "OverflowError", amount |-> 0, message |-> <<>>]
    ELSE IF f.kind = "nan"      \* int(nan): ValueError, caught
        THEN Invalid("Please enter a valid number.")
    ELSE IF f.val % 100 # 0
        THEN Invalid("Please enter a whole number (e.g., 10, 20, 30).")
    ELSE IF (f.val \div 100) % 10 # 0
        THEN Invalid("Please enter an amount in multiples of 10.")
    ELSE IF InsufficientFunds(f.val \div 100, balance)
        THEN [outcome |-> "invalid", amount |-> 0,
              message |-> <<"Insufficient funds. Your balance is", balance>>]
    ELSE [outcome |-> "valid", amount |-> f.val \div 100, message |-> <<>>]

\* mutant: logged_in is set to False on every call
initialize_session_Relogin(s) ==
    LET s1 == IF Has(s, "pin") THEN s ELSE Put(s, "pin", DEFAULT_PIN)
        s2 == IF Has(s1, "balance") THEN s1 ELSE Put(s1, "balance", STARTING_BALANCE)
        s3 == Put(s2, "logged_in", FALSE)
        s4 == IF Has(s3, "is_admin") THEN s3 ELSE Put(s3, "is_admin", FALSE)
    IN  IF Has(s4, "pin_change_step") THEN s4 ELSE Put(s4, "pin_change_step", 0)

initialize_session(s) ==
    LET s1 == IF Has(s, "pin") THEN s ELSE Put(s, "pin", DEFAULT_PIN)
        s2 == IF Has(s1, "balance") THEN s1 ELSE Put(s1, "balance", STARTING_BALANCE)
        s3 == IF Has(s2, "logged_in") THEN s2 ELSE Put(s2, "logged_in", FALSE)
        s4 == IF Has(s3, "is_admin") THEN s3 ELSE Put(s3, "is_admin", FALSE)
    IN  IF Has(s4, "pin_change_step") THEN s4 ELSE Put(s4, "pin_change_step", 0)

Title(t) == IF t = "withdrawal" THEN "Withdrawal" ELSE t
\* "{x:.2f}" of an amount in hundredths: pounds and two-digit pence
Fmt2(h) == <<h \div 100, h % 100>>

\* the record add_transaction builds
Transaction(timestamp, amount, balance_after, transaction_type) ==
    [timestamp |-> timestamp,
     type |-> transaction_type,
     amount |-> amount,
     balance_after |-> balance_after,
     formatted |-> <<timestamp, Title(transaction_type), Fmt2(amount * 100),
                     Fmt2(balance_after)>>]

save_transactions(transactions) == ledger' = transactions

\* mutant: the record carries the balance before the withdrawal
add_transaction_stale(timestamp, amount, balance_after) ==
    save_transactions(
        Append(load_transactions,
               Transaction(timestamp, amount, balance_after + amount * 100,
                           "withdrawal")))

add_transaction(timestamp, amount, balance_after) ==
    save_transactions(
        Append(load_transactions,
               Transaction(timestamp, amount, balance_after, "withdrawal")))

\* datetime.now(): the clock never runs backwards
Now(ts) ==
    /\ ts \in Times
    /\ ledger # <<>> => ts >= ledger[Len(ledger)].timestamp

\* mutant: the admin flag is not looked at
NotAuthorized_NoAdminCheck(s) == ~Get(s, "logged_in", FALSE)

NotAuthorized(s) == ~Get(s, "logged_in", FALSE) \/ Get(s, "is_admin", FALSE)

\* failed api_login calls this client made in a row just before this request
\* (no such count exists in the code; it is kept to observe the login rule)
Bump(n) == IF n < MaxFailed THEN n + 1 ELSE n
FailedBefore(c) ==
    IF resp.op = "login" /\ resp.c = c /\ ~resp.body.success
    THEN Bump(resp.failed) ELSE 0

Reply(op, c, arg, status, body) ==
    resp' = [op |-> op, c |-> c, arg |-> arg, status |-> status, body |-> body,
             failed |-> IF op = "login" THEN FailedBefore(c) ELSE 0]

Error401 == [error |-> "Not authorized"]

\* ---------------------------------------------------------------- routes
index(c) ==
    /\ session' = [session EXCEPT ![c] = initialize_session(session[c])]
    /\ Reply("index", c, <<>>, 200, EmptyDict)
    /\ UNCHANGED ledger

\* mutant: a login that follows two failed ones in a row is refused
Credential_Lockout(pin_attempt, pin) ==
    IF resp.op = "login" /\ ~resp.body.success /\ resp.failed >= 1 THEN "reject"
    ELSE IF pin_attempt = ADMIN_PASSWORD THEN "admin"
    ELSE IF pin_attempt = pin THEN "customer"
    ELSE "reject"

\* the branch api_login takes for a credential, given the session PIN
Credential(pin_attempt, pin) ==
    IF pin_attempt = ADMIN_PASSWORD THEN "admin"
    ELSE IF pin_attempt = pin THEN "customer"
    ELSE "reject"

api_login(c, pin_attempt) ==
    LET s == initialize_session(session[c])
        branch == Credential(pin_attempt, s["pin"])
    IN
    IF branch = "admin" THEN
        /\ session' = [session EXCEPT
                ![c] = Put(Put(s, "logged_in", TRUE), "is_admin", TRUE)]
        /\ Reply("login", c, pin_attempt, 200,
                 [success |-> TRUE, is_admin |-> TRUE,
                  message |-> "Admin login successful!"])
        /\ UNCHANGED ledger
    ELSE IF branch = "customer" THEN
        /\ session' = [session EXCEPT
                ![c] = Put(Put(s, "logged_in", TRUE), "is_admin", FALSE)]
        /\ Reply("login", c, pin_attempt, 200,
                 [success |-> TRUE, is_admin |-> FALSE,
                  message |-> "Login successful!",
                  transaction_count |-> Len(load_transactions),
                  balance |-> s["balance"]])
        /\ UNCHANGED ledger
    ELSE
        /\ session' = [session EXCEPT ![c] = s]
        /\ Reply("login", c, pin_attempt, 200,
                 [success |-> FALSE,
                  message |-> "Incorrect PIN or password. Please try again."])
        /\ UNCHANGED ledger

api_balance(c) ==
    /\ IF NotAuthorized(session[c])
       THEN Reply("balance", c, <<>>, 401, Error401)
       ELSE Reply("balance", c, <<>>, 200, [balance |-> session[c]["balance"]])
    /\ UNCHANGED <<session, ledger>>

api_withdraw(c, amount_str) ==
    IF NotAuthorized(session[c]) THEN
        /\ Reply("withdraw", c, amount_str, 401, Error401)
        /\ UNCHANGED <<session, ledger>>
    ELSE
        LET v == validate_withdrawal(amount_str, session[c]["balance"]) IN
        IF v.outcome = "OverflowError" THEN      \* unhandled: errorhandler(500)
            /\ Reply("withdraw", c, amount_str, 500, EmptyDict)
            /\ UNCHANGED <<session, ledger>>
        ELSE IF v.outcome = "invalid" THEN
            /\ Reply("withdraw", c, amount_str, 200,
                     [success |-> FALSE, message |-> v.message])
            /\ UNCHANGED <<session, ledger>>
        ELSE
            LET amount == v.amount
                balance == session[c]["balance"] - amount * 100
            IN  /\ Len(ledger) < MaxLedger
                /\ \E ts \in Times :
                    /\ Now(ts)
                    /\ session' = [session EXCEPT
                            ![c] = Put(session[c], "balance", balance)]
                    /\ add_transaction(ts, amount, balance)
                    /\ Reply("withdraw", c, amount_str, 200,
                             [success |-> TRUE,
                              message |-> <<"Success! withdrawn.", Fmt2(amount * 100)>>,
                              balance |-> balance,
                              transaction |-> Transaction(ts, amount, balance,
                                                          "withdrawal")])

\* mutant: only the length is looked at
ValidNewPin_LengthOnly(pin_input) == Len(pin_input) = 4

\* step 1: len(pin_input) == 4 and pin_input.isdigit()
ValidNewPin(pin_input) == Len(pin_input) = 4 /\ AllDigits(pin_input)

\* mutant: the step advances and the new PIN is not kept
StoreNewPin_StepOnly(s, pin_input) == Put(s, "pin_change_step", 2)

\* mutant: a pending new PIN that is already stored is not replaced
StoreNewPin_KeepFirst(s, pin_input) ==
    Put(IF Has(s, "new_pin") THEN s ELSE Put(s, "new_pin", pin_input),
        "pin_change_step", 2)

\* step 1, accepted: the new PIN is kept for confirmation
StoreNewPin(s, pin_input) ==
    Put(Put(s, "new_pin", pin_input), "pin_change_step", 2)

\* mutant: the pending new PIN is left behind
CommitPin_KeepPending(s) ==
    Put(Put(s, "pin", s["new_pin"]), "pin_change_step", 0)

\* step 2, confirmed: the new PIN becomes the session PIN
CommitPin(s) ==
    Pop(Put(Put(s, "pin", s["new_pin"]), "pin_change_step", 0), "new_pin")

api_change_pin(c, pin_input) ==
    LET s == session[c]
        step == Get(s, "pin_change_step", 0)
    IN
    IF NotAuthorized(s) THEN
        /\ Reply("change_pin", c, pin_input, 401, Error401)
        /\ UNCHANGED <<session, ledger>>
    ELSE IF step = 0 THEN
        IF pin_input = s["pin"] THEN
            /\ session' = [session EXCEPT ![c] = Put(s, "pin_change_step", 1)]
            /\ Reply("change_pin", c, pin_input, 200,
                     [success |-> TRUE, step |-> 1,
                      message |-> "Current PIN verified. Enter new PIN."])
            /\ UNCHANGED ledger
        ELSE
            /\ Reply("change_pin", c, pin_input, 200,
                     [success |-> FALSE, message |-> "Incorrect current PIN."])
            /\ UNCHANGED <<session, ledger>>
    ELSE IF step = 1 THEN
        IF ValidNewPin(pin_input) THEN
            /\ session' = [session EXCEPT ![c] = StoreNewPin(s, pin_input)]
            /\ Reply("change_pin", c, pin_input, 200,
                     [success |-> TRUE, step |-> 2,
                      message |-> "New PIN entered. Please confirm."])
            /\ UNCHANGED ledger
        ELSE
            /\ Reply("change_pin", c, pin_input, 200,
                     [success |-> FALSE,
                      message |-> "PIN must be exactly 4 digits."])
            /\ UNCHANGED <<session, ledger>>
    ELSE IF step = 2 THEN
        IF Has(s, "new_pin") /\ pin_input = s["new_pin"] THEN
            /\ session' = [session EXCEPT ![c] = CommitPin(s)]
            /\ Reply("change_pin", c, pin_input, 200,
                     [success |-> TRUE, step |-> 0,
                      message |-> "PIN changed successfully!",
                      complete |-> TRUE])
            /\ UNCHANGED ledger
        ELSE
            /\ session' = [session EXCEPT ![c] = Put(s, "pin_change_step", 1)]
            /\ Reply("change_pin", c, pin_input, 200,
                     [success |-> FALSE, step |-> 1,
                      message |-> "PINs do not match. Enter new PIN again."])
            /\ UNCHANGED ledger
    ELSE        \* no branch: the view returns None, errorhandler(500)
        /\ Reply("change_pin", c, pin_input, 500, EmptyDict)
        /\ UNCHANGED <<session, ledger>>

\* mutant: the newest record comes first
Formatted_NewestFirst(transactions) ==
    [i \in 1..Len(transactions) |->
        transactions[Len(transactions) + 1 - i].formatted]

Formatted(transactions) == [i \in 1..Len(transactions) |-> transactions[i].formatted]

api_transactions(c) ==
    /\ IF ~Get(session[c], "logged_in", FALSE)
       THEN Reply("transactions", c, <<>>, 401, Error401)
       ELSE LET transactions == load_transactions IN
            IF Get(session[c], "is_admin", FALSE)
            THEN Reply("transactions", c, <<>>, 200,
                       [transactions |-> Formatted(transactions),
                        count |-> Len(transactions)])
            ELSE Reply("transactions", c, <<>>, 200,
                       [transactions |-> Formatted(transactions),
                        count |-> Len(transactions)])
    /\ UNCHANGED <<session, ledger>>

\* mutant: only the login flags are dropped
api_logout_FlagsOnly(c) ==
    /\ session' = [session EXCEPT
            ![c] = Pop(Pop(session[c], "logged_in"), "is_admin")]
    /\ Reply("logout", c, <<>>, 200,
             [success |-> TRUE,
              message |-> "Thank you for using Secure Bank ATM!"])
    /\ UNCHANGED ledger

api_logout(c) ==
    /\ session' = [session EXCEPT ![c] = EmptyDict]
    /\ Reply("logout", c, <<>>, 200,
             [success |-> TRUE,
              message |-> "Thank you for using Secure Bank ATM!"])
    /\ UNCHANGED ledger

ResetPinChange(s) == Pop(Put(s, "pin_change_step", 0), "new_pin")

api_reset_pin_change(c) ==
    /\ session' = [session EXCEPT ![c] = ResetPinChange(session[c])]
    /\ Reply("reset_pin_change", c, <<>>, 200, [success |-> TRUE])
    /\ UNCHANGED ledger

\* ---------------------------------------------------------- state machine
\* no request is inside add_transaction
Idle == [pc |-> "idle"]

Init ==
    /\ session = [c \in Clients |-> EmptyDict]
    /\ ledger = <<>>
    /\ resp = [op |-> "none", c |-> "none", arg |-> <<>>, status |-> 0,
               body |-> EmptyDict, failed |-> 0]
    /\ inflight = [c \in Clients |-> Idle]

\* each request is handled to completion before the next one starts
Next ==
    \/ \E c \in Clients : index(c) /\ UNCHANGED inflight
    \/ \E c \in Clients, p \in PinInputs : api_login(c, p) /\ UNCHANGED inflight
    \/ \E c \in Clients : api_balance(c) /\ UNCHANGED inflight
    \/ \E c \in Clients, a \in AmountInputs : api_withdraw(c, a) /\ UNCHANGED inflight
    \/ \E c \in Clients, p \in PinInputs : api_change_pin(c, p) /\ UNCHANGED inflight
    \/ \E c \in Clients : api_transactions(c) /\ UNCHANGED inflight
    \/ \E c \in Clients : api_logout(c) /\ UNCHANGED inflight
    \/ \E c \in Clients : api_reset_pin_change(c) /\ UNCHANGED inflight

Spec == Init /\ [][Next]_vars

\* ------------------------------------------------- a failing ledger write
\* api_withdraw when save_transactions raises OSError: the balance has been
\* lowered in the session (line 175) before add_transaction runs (line 178)
\* and nothing puts it back.  open(..., 'w') may fail and leave the file as
\* it was, or the write may fail after the file was truncated, and then
\* load_transactions reads [].  The request ends in the 500 handler; whether
\* the changed session reaches the client with that answer depends on how
\* the server is run (the error page of a production server carries the
\* session cookie, the debugger's does not).
api_withdraw_OSError(c, amount_str) ==
    /\ ~NotAuthorized(session[c])
    /\ LET v == validate_withdrawal(amount_str, session[c]["balance"])
           balance == session[c]["balance"] - v.amount * 100
       IN  /\ v.outcome = "valid"
           /\ session' \in { session,
                              [session EXCEPT ![c] = Put(session[c], "balance", balance)] }
           /\ ledger' \in { ledger, <<>> }
           /\ Reply("withdraw", c, amount_str, 500, EmptyDict)

\* the amounts asked for when the write fails
OSErrorAmounts == { <<"1", "2", "0">> }

NextOSError ==
    \/ Next
    \/ \E c \in Clients, a \in OSErrorAmounts :
            api_withdraw_OSError(c, a) /\ UNCHANGED inflight

SpecOSError == Init /\ [][NextOSError]_vars

\* ------------------------------------------------------ concurrent requests
\* The server handles requests of different clients in parallel (threads or
\* worker processes); the ledger file is all they share.  add_transaction
\* reads the file, builds the record and rewrites the file, with no lock in
\* between, so a request can be overtaken between its load_transactions and
\* its save_transactions.  A client sends its next request after the answer
\* to the one before.
Writers == {"c1", "c2"}
WriterAmounts == { <<"1", "2", "0">>, <<"1", "3", "0">> }

\* api_withdraw up to and including load_transactions and the timestamp
\* (lines 159-48): a request that is refused is answered at once
api_withdraw_load(c, amount_str) ==
    /\ inflight[c] = Idle
    /\ IF NotAuthorized(session[c]) THEN
            /\ Reply("withdraw", c, amount_str, 401, Error401)
            /\ UNCHANGED <<session, ledger, inflight>>
       ELSE
            LET v == validate_withdrawal(amount_str, session[c]["balance"]) IN
            IF v.outcome # "valid" THEN
                /\ Reply("withdraw", c, amount_str, 200,
                         [success |-> FALSE, message |-> v.message])
                /\ UNCHANGED <<session, ledger, inflight>>
            ELSE
                /\ Len(ledger) < MaxLedger
                /\ \E ts \in Times :
                        /\ Now(ts)
                        /\ inflight' = [inflight EXCEPT ![c] =
                                [pc |-> "save",
                                 amount_str |-> amount_str,
                                 amount |-> v.amount,
                                 balance |-> session[c]["balance"] - v.amount * 100,
                                 transactions |-> load_transactions,
                                 timestamp |-> ts]]
                /\ UNCHANGED <<session, ledger, resp>>

\* the rest of api_withdraw: transactions.append, save_transactions and the
\* answer, which carries the session with the lowered balance
api_withdraw_save(c) ==
    /\ inflight[c].pc = "save"
    /\ LET r == inflight[c]
           transaction == Transaction(r.timestamp, r.amount, r.balance, "withdrawal")
       IN  /\ save_transactions(Append(r.transactions, transaction))
           /\ session' = [session EXCEPT ![c] = Put(session[c], "balance", r.balance)]
           /\ Reply("withdraw", c, r.amount_str, 200,
                    [success |-> TRUE,
                     message |-> <<"Success! withdrawn.", Fmt2(r.amount * 100)>>,
                     balance |-> r.balance,
                     transaction |-> transaction])
           /\ inflight' = [inflight EXCEPT ![c] = Idle]

InitConcurrent ==
    /\ session = [c \in Writers |-> EmptyDict]
    /\ ledger = <<>>
    /\ resp = [op |-> "none", c |-> "none", arg |-> <<>>, status |-> 0,
               body |-> EmptyDict, failed |-> 0]
    /\ inflight = [c \in Writers |-> Idle]

NextConcurrent ==
    \/ \E c \in Writers :
            inflight[c] = Idle /\ api_login(c, DEFAULT_PIN) /\ UNCHANGED inflight
    \/ \E c \in Writers, a \in WriterAmounts : api_withdraw_load(c, a)
    \/ \E c \in Writers : api_withdraw_save(c)
    \/ \E c \in Writers :
            inflight[c] = Idle /\ api_logout(c) /\ UNCHANGED inflight

SpecConcurrent == InitConcurrent /\ [][NextConcurrent]_vars

\* =============================================================== properties
\* a logged-in session that is not the admin's
Customer(s) == Get(s, "logged_in", FALSE) /\ ~Get(s, "is_admin", FALSE)

\* the number of pounds an amount string denotes
PoundsOf(amount_str) == ParseFloat(amount_str).val \div 100

\* a positive whole multiple of 10 that the balance covers
GoodAmount(amount_str, balance) ==
    LET f == ParseFloat(amount_str)
    IN  f.kind = "num" /\ f.val > 0 /\ f.val % 1000 = 0 /\ f.val <= balance

WithdrawOk(r) == r.op = "withdraw" /\ r.status = 200 /\ r.body.success

\* C1: a successful api_withdraw of amount a lowers the session balance by
\* exactly a and appends exactly one record, with amount a and balance_after
\* equal to the new balance; the earlier records are unchanged.
C1_WithdrawApplied ==
    [][ WithdrawOk(resp') =>
            LET c == resp'.c
                a == PoundsOf(resp'.arg)
            IN  /\ Customer(session[c])
                /\ session'[c]["balance"] = session[c]["balance"] - a * 100
                /\ Len(ledger') = Len(ledger) + 1
                /\ SubSeq(ledger', 1, Len(ledger)) = ledger
                /\ ledger'[Len(ledger')].amount = a
                /\ ledger'[Len(ledger')].balance_after = session'[c]["balance"]
      ]_vars

\* a second successful withdrawal, on top of an earlier record
C1_Witness ==
    /\ WithdrawOk(resp)
    /\ resp.arg = <<"1", "0">>
    /\ Len(ledger) = 2

\* C2: a customer's api_withdraw with an amount that is not a positive whole
\* multiple of 10 within the balance answers success=false and changes
\* neither the session nor the ledger.
C2_BadAmountRejected ==
    [][ ( /\ resp'.op = "withdraw"
          /\ Customer(session[resp'.c])
          /\ ~GoodAmount(resp'.arg, session[resp'.c]["balance"]) )
        => ( /\ resp'.status = 200
             /\ resp'.body.success = FALSE
             /\ session' = session
             /\ ledger' = ledger )
      ]_vars

\* C3: api_balance, api_withdraw and api_change_pin called on a session that
\* is not logged in, or is logged in as admin, answer 401 and change neither
\* the session nor the ledger.
C3_Unauthorised ==
    [][ ( /\ resp'.op \in {"balance", "withdraw", "change_pin"}
          /\ ~Customer(session[resp'.c]) )
        => ( /\ resp'.status = 401
             /\ session' = session
             /\ ledger' = ledger )
      ]_vars

\* the admin asks for a withdrawal that a customer would be given
C3_Witness ==
    /\ resp.op = "withdraw"
    /\ resp.arg = <<"1", "0">>
    /\ resp.status = 401
    /\ Get(session[resp.c], "logged_in", FALSE)
    /\ Get(session[resp.c], "is_admin", FALSE)

\* what the next request of a client finds in its session: the stored value,
\* or the default initialize_session gives a session that lacks the key
LoginPin(s) == initialize_session(s)["pin"]
BalanceOf(s) == initialize_session(s)["balance"]

ChangeCompleted(r) ==
    r.op = "change_pin" /\ r.status = 200 /\ "complete" \in DOMAIN r.body

\* C4: a PIN p set by a completed PIN change (p not the admin password)
\* stays the PIN that api_login accepts as customer over every operation,
\* api_logout included, until another PIN change completes.
C4_PinKeptUntilNextChange ==
    [][ \A c \in Clients :
            ( /\ LoginPin(session[c]) \notin {DEFAULT_PIN, ADMIN_PASSWORD}
              /\ ~(ChangeCompleted(resp') /\ resp'.c = c) )
            => LoginPin(session'[c]) = LoginPin(session[c])
      ]_vars

\* C5: the balance a client holds changes only in a successful api_withdraw,
\* and then it decreases; logout followed by a new login does not raise it.
C5_BalanceNeverIncreases ==
    [][ \A c \in Clients :
            BalanceOf(session'[c]) # BalanceOf(session[c])
            => ( /\ WithdrawOk(resp') /\ resp'.c = c
                 /\ BalanceOf(session'[c]) < BalanceOf(session[c]) )
      ]_vars

\* C6: the session balance is never negative, and every ledger record has a
\* positive amount that is a multiple of 10 and a non-negative balance_after.
C6_NonNegative ==
    /\ \A c \in Clients :
            Has(session[c], "balance") => session[c]["balance"] >= 0
    /\ \A i \in 1..Len(ledger) :
            /\ ledger[i].amount > 0
            /\ ledger[i].amount % 10 = 0
            /\ ledger[i].balance_after >= 0

\* 10 is asked of a balance of 3.45 and refused
C6_Witness ==
    /\ resp.op = "withdraw"
    /\ resp.arg = <<"1", "0">>
    /\ resp.status = 200
    /\ ~resp.body.success
    /\ session[resp.c]["balance"] = 345
    /\ ledger # <<>>

StepOf(s) == Get(s, "pin_change_step", 0)
Pending(s) == Has(s, "new_pin")
FourDigits(p) ==
    /\ Len(p) = 4
    /\ \A i \in 1..Len(p) :
            p[i] \in {"0", "1", "2", "3", "4", "5", "6", "7", "8", "9"}

\* C7: for a logged-in customer api_change_pin moves pin_change_step as the
\* transition table says: 0 to 1 iff the input is the current PIN, else 0;
\* 1 to 2 iff the input is exactly 4 digits, else 1; 2 to 0 with complete
\* iff the input is the pending new PIN, else 1; the step is always 0, 1 or 2.
C7_TransitionTable ==
    [][ /\ \A c \in Clients : StepOf(session'[c]) \in {0, 1, 2}
        /\ (resp'.op = "change_pin" /\ Customer(session[resp'.c])) =>
                LET s == session[resp'.c]
                    t == session'[resp'.c]
                    input == resp'.arg
                    complete == "complete" \in DOMAIN resp'.body
                IN  /\ StepOf(s) = 0 =>
                            /\ StepOf(t) = (IF input = s["pin"] THEN 1 ELSE 0)
                            /\ ~complete
                    /\ StepOf(s) = 1 =>
                            /\ StepOf(t) = (IF FourDigits(input) THEN 2 ELSE 1)
                            /\ ~complete
                    /\ StepOf(s) = 2 =>
                            IF input = s["new_pin"]
                            THEN StepOf(t) = 0 /\ complete /\ resp'.body.complete
                            ELSE StepOf(t) = 1 /\ ~complete
      ]_vars

\* a 3-digit new PIN is refused and the flow stays in step 1
C7_Witness ==
    /\ resp.op = "change_pin"
    /\ resp.arg = <<"5", "6", "7">>
    /\ resp.status = 200
    /\ ~resp.body.success
    /\ StepOf(session[resp.c]) = 1

\* C8 as stated: the pending new PIN is present iff pin_change_step is not 0
C8_PendingIffActive ==
    \A c \in Clients : Pending(session[c]) <=> StepOf(session[c]) # 0

\* C8: the pending new PIN is absent in step 0 and present in step 2; in
\* step 1 it is absent until a new PIN has been accepted once.
C8_PendingWithinFlow ==
    \A c \in Clients :
        /\ Pending(session[c]) => StepOf(session[c]) \in {1, 2}
        /\ StepOf(session[c]) = 2 => Pending(session[c])

\* a new PIN has been accepted and awaits confirmation
C8_Witness ==
    /\ resp.op = "change_pin"
    /\ resp.status = 200
    /\ resp.body.success
    /\ StepOf(session[resp.c]) = 2
    /\ Pending(session[resp.c])
    /\ session[resp.c]["new_pin"] = resp.arg

\* C9: in step 0 no pending new PIN is set; and right after a completed PIN
\* change, after api_reset_pin_change in any state and after api_logout the
\* flow is in step 0 with no pending new PIN.
C9_IdleHasNoPending ==
    /\ \A c \in Clients : StepOf(session[c]) = 0 => ~Pending(session[c])
    /\ (ChangeCompleted(resp) \/ resp.op \in {"reset_pin_change", "logout"}) =>
            /\ StepOf(session[resp.c]) = 0
            /\ ~Pending(session[resp.c])

\* a PIN change has just completed
C9_Witness ==
    /\ ChangeCompleted(resp)
    /\ resp.arg = <<"5", "6", "7", "8">>
    /\ session[resp.c]["pin"] = resp.arg

\* C10: api_login decides on the credential and the session PIN alone: the
\* admin password logs in as admin with no balance or transaction count in
\* the answer; otherwise the session PIN logs in as customer and the answer
\* carries the balance and the ledger length; otherwise it fails and
\* logged_in and is_admin keep their values, however many failed attempts
\* came before.
C10_LoginRule ==
    [][ resp'.op = "login" =>
            LET s == session[resp'.c]
                t == session'[resp'.c]
                credential == resp'.arg
                body == resp'.body
            IN  IF credential = ADMIN_PASSWORD THEN
                    /\ body.success /\ body.is_admin
                    /\ t["logged_in"] /\ t["is_admin"]
                    /\ "balance" \notin DOMAIN body
                    /\ "transaction_count" \notin DOMAIN body
                ELSE IF credential = LoginPin(s) THEN
                    /\ body.success /\ ~body.is_admin
                    /\ t["logged_in"] /\ ~t["is_admin"]
                    /\ body.balance = BalanceOf(s)
                    /\ body.transaction_count = Len(ledger)
                ELSE
                    /\ ~body.success
                    /\ Get(t, "logged_in", FALSE) = Get(s, "logged_in", FALSE)
                    /\ Get(t, "is_admin", FALSE) = Get(s, "is_admin", FALSE)
      ]_vars

\* a customer login succeeds right after MaxFailed failed attempts
C10_Witness ==
    /\ resp.op = "login"
    /\ resp.body.success
    /\ ~resp.body.is_admin
    /\ resp.failed = MaxFailed

\* the value a request reads for a session field: the stored one, or the one
\* a session without the key is given (None for the pending new PIN)
FieldNames ==
    {"pin", "balance", "logged_in", "is_admin", "pin_change_step", "new_pin"}
Field(s, k) ==
    CASE k = "pin" -> Get(s, k, DEFAULT_PIN)
      [] k = "balance" -> Get(s, k, STARTING_BALANCE)
      [] k = "logged_in" -> Get(s, k, FALSE)
      [] k = "is_admin" -> Get(s, k, FALSE)
      [] k = "pin_change_step" -> Get(s, k, 0)
      [] k = "new_pin" -> Get(s, k, <<>>)

\* an answer with success=false from api_login, api_withdraw or api_change_pin
ValidationFailed(r) ==
    /\ r.op \in {"login", "withdraw", "change_pin"}
    /\ r.status = 200
    /\ ~r.body.success

\* C11 as stated: a call of api_login, api_withdraw or api_change_pin that
\* answers success=false leaves every session field and the ledger as they
\* were.
C11_FailureChangesNothing ==
    [][ ValidationFailed(resp') =>
            /\ \A k \in FieldNames :
                    Field(session'[resp'.c], k) = Field(session[resp'.c], k)
            /\ ledger' = ledger
      ]_vars

\* C11: a call that answers success=false leaves pin, balance, logged_in,
\* is_admin, the pending new PIN and the ledger as they were, and
\* pin_change_step too except that a confirmation mismatch in step 2 puts it
\* back to 1.
C11_FailureKeepsAllButStep ==
    [][ ValidationFailed(resp') =>
            LET s == session[resp'.c]
                t == session'[resp'.c]
            IN  /\ \A k \in FieldNames \ {"pin_change_step"} :
                        Field(t, k) = Field(s, k)
                /\ ledger' = ledger
                /\ Field(t, "pin_change_step") =
                        IF resp'.op = "change_pin" /\ Field(s, "pin_change_step") = 2
                        THEN 1 ELSE Field(s, "pin_change_step")
      ]_vars

\* a confirmation that does not match has been refused, after a withdrawal
C11_Witness ==
    /\ resp.op = "change_pin"
    /\ ValidationFailed(resp)
    /\ resp.body.message = "PINs do not match. Enter new PIN again."
    /\ Field(session[resp.c], "pin_change_step") = 1
    /\ Field(session[resp.c], "balance") < STARTING_BALANCE
    /\ ledger # <<>>

\* C12: the ledger changes only in a successful api_withdraw, and then by
\* one record added at the end; every other call leaves it as it was; and
\* api_logout leaves no field in the session, whatever it held.
C12_AppendOnlyAndLogoutClears ==
    [][ /\ ledger' # ledger =>
                /\ WithdrawOk(resp')
                /\ Len(ledger') = Len(ledger) + 1
                /\ SubSeq(ledger', 1, Len(ledger)) = ledger
        /\ resp'.op # "withdraw" => ledger' = ledger
        /\ (resp'.op = "withdraw" /\ ~WithdrawOk(resp')) => ledger' = ledger
        /\ resp'.op = "logout" =>
                /\ \A k \in FieldNames : ~Has(session'[resp'.c], k)
                /\ ledger' = ledger
      ]_vars

\* a session has logged out and the records it wrote are still there
C12_Witness ==
    /\ resp.op = "logout"
    /\ session[resp.c] = EmptyDict
    /\ Len(ledger) = 2

\* C13: an api_withdraw request either lowers the session balance by the
\* amount and appends the matching record, or changes neither the session
\* nor the ledger, also when the ledger write fails during the request.
C13_WithdrawAllOrNothing ==
    [][ resp'.op = "withdraw" =>
            LET c == resp'.c
                a == PoundsOf(resp'.arg)
            IN  \/ /\ session' = session
                   /\ ledger' = ledger
                \/ /\ BalanceOf(session'[c]) = BalanceOf(session[c]) - a * 100
                   /\ Len(ledger') = Len(ledger) + 1
                   /\ SubSeq(ledger', 1, Len(ledger)) = ledger
                   /\ ledger'[Len(ledger')].amount = a
                   /\ ledger'[Len(ledger')].balance_after = BalanceOf(session'[c])
      ]_vars

\* C14: api_transactions answers 401 iff the session is not logged in;
\* otherwise, admin or customer alike, it answers with the formatted line of
\* every ledger record in insertion order and a count equal to the ledger
\* length.
C14_SameViewForAll ==
    resp.op = "transactions" =>
        LET s == session[resp.c] IN
        IF ~Field(s, "logged_in")
        THEN resp.status = 401
        ELSE /\ resp.status = 200
             /\ DOMAIN resp.body = {"transactions", "count"}
             /\ resp.body.count = Len(ledger)
             /\ Len(resp.body.transactions) = Len(ledger)
             /\ \A i \in 1..Len(ledger) :
                    resp.body.transactions[i] = ledger[i].formatted

\* the admin reads two different records a customer wrote
C14_Witness ==
    /\ resp.op = "transactions"
    /\ resp.status = 200
    /\ Field(session[resp.c], "is_admin")
    /\ resp.body.count = 2
    /\ resp.body.transactions[1] # resp.body.transactions[2]

\* C15: api_change_pin in step 2 with an input that differs from the pending
\* new PIN puts the flow back in step 1 and clears the pending new PIN.
C15_MismatchClearsPending ==
    [][ ( /\ resp'.op = "change_pin"
          /\ Customer(session[resp'.c])
          /\ StepOf(session[resp'.c]) = 2
          /\ resp'.arg # Field(session[resp'.c], "new_pin") )
        => ( /\ StepOf(session'[resp'.c]) = 1
             /\ ~Pending(session'[resp'.c]) )
      ]_vars

\* C16: a step-1 input that is accepted becomes the pending new PIN, the
\* pending new PIN stays as it is while the flow waits in step 2, and a PIN
\* change that commits makes the session PIN equal to the confirmation input
\* and to that pending new PIN; the session PIN is exactly 4 digits in every
\* reachable state.
C16_CommitsWhatWasConfirmed ==
    [][ /\ \A c \in Clients : FourDigits(Field(session'[c], "pin"))
        /\ \A c \in Clients :
                (StepOf(session[c]) = 2 /\ StepOf(session'[c]) = 2)
                => Field(session'[c], "new_pin") = Field(session[c], "new_pin")
        /\ (resp'.op = "change_pin" /\ resp'.status = 200) =>
                LET s == session[resp'.c]
                    t == session'[resp'.c]
                IN  /\ (StepOf(s) = 1 /\ resp'.body.success)
                            => Field(t, "new_pin") = resp'.arg
                    /\ ChangeCompleted(resp')
                            => /\ StepOf(s) = 2
                               /\ Field(t, "pin") = resp'.arg
                               /\ Field(t, "pin") = Field(s, "new_pin")
                    /\ Field(t, "pin") # Field(s, "pin") => ChangeCompleted(resp')
      ]_vars

\* a PIN change has committed the confirmed input, which is not the PIN the
\* session started with
C16_Witness ==
    /\ ChangeCompleted(resp)
    /\ resp.arg = <<"5", "6", "7", "8">>
    /\ Field(session[resp.c], "pin") = resp.arg
    /\ Field(session[resp.c], "pin") # DEFAULT_PIN
    /\ ~Pending(session[resp.c])

\* the checks of a withdrawal amount in the order the claim lists them, and
\* the message of the first one that fails (<<>> when none fails)
NotANumber(f) == f.kind \in {"ValueError", "nan"}
NotPositive(f) == IF f.kind = "inf" THEN f.neg ELSE f.val <= 0
NotWhole(f) == f.kind = "inf" \/ f.val % 100 # 0
NotMultipleOf10(f) == (f.val \div 100) % 10 # 0
OverBalance(f, balance) == f.val > balance
FirstFailure(amount_str, balance) ==
    LET f == ParseFloat(amount_str) IN
    IF NotANumber(f) THEN <<"Please enter a valid number.">>
    ELSE IF NotPositive(f) THEN <<"Amount must be greater than 0.">>
    ELSE IF NotWhole(f) THEN <<"Please enter a whole number (e.g., 10, 20, 30).">>
    ELSE IF NotMultipleOf10(f) THEN <<"Please enter an amount in multiples of 10.">>
    ELSE IF OverBalance(f, balance)
        THEN <<"Insufficient funds. Your balance is", balance>>
    ELSE <<>>

\* C17: the answer to a customer's withdrawal carries the message of the
\* first check that fails, in the order: not a number, not greater than
\* zero, not a whole number, not a multiple of 10, greater than the balance;
\* the withdrawal succeeds when none fails.
C17_FirstFailingCheckWins ==
    [][ (resp'.op = "withdraw" /\ Customer(session[resp'.c])) =>
            LET e == FirstFailure(resp'.arg, session[resp'.c]["balance"])
            IN  /\ resp'.status = 200
                /\ IF e = <<>> THEN resp'.body.success
                   ELSE ~resp'.body.success /\ resp'.body.message = e
      ]_vars

\* C18: a successful withdrawal leaves every record that was in the ledger
\* in place and adds its own record after them, also when another session's
\* withdrawal ran between its load_transactions and its save_transactions.
C18_NoLostUpdate ==
    [][ \A c \in DOMAIN inflight :
            (inflight[c].pc = "save" /\ inflight'[c].pc = "idle") =>
                /\ WithdrawOk(resp') /\ resp'.c = c
                /\ Len(ledger') = Len(ledger) + 1
                /\ \A i \in 1..Len(ledger) : ledger'[i] = ledger[i]
                /\ ledger'[Len(ledger')] = resp'.body.transaction
      ]_vars

\* C19: api_login with the session's current PIN logs the session in as a
\* customer (logged_in true, is_admin false), whatever PIN the PIN-change
\* flow has committed.
C19_CurrentPinLogsInCustomer ==
    [][ (resp'.op = "login" /\ resp'.arg = Field(session[resp'.c], "pin")) =>
            /\ resp'.body.success
            /\ Field(session'[resp'.c], "logged_in")
            /\ ~Field(session'[resp'.c], "is_admin")
      ]_vars

\* C20: each ledger record after the first has balance_after equal to the
\* balance_after of the record before it minus its own amount.
C20_RunningBalance ==
    \A i \in 2..Len(ledger) :
        ledger[i].balance_after =
            ledger[i - 1].balance_after - ledger[i].amount * 100
====
